---------------------------- MODULE Spec2Model ----------------------------
(***************************************************************************)
(* Model of src/src/mem.rs: MemInfo::new (build_lookup_table) and          *)
(* MemInfo::stats (delta-advance re-read of /proc/meminfo).                *)
(*                                                                         *)
(* Text is modelled at character level: a String is a sequence of          *)
(* one-character strings, a file is the sequence of its bytes, and         *)
(* str::lines, str::split, str::rfind and str::parse are computed on       *)
(* those sequences the way the standard library computes them.             *)
(*                                                                         *)
(* A usize is a residue modulo 2^64.  It is represented by its signed      *)
(* representative: a value below 2^63 by itself, a value x at or above     *)
(* 2^63 by x - 2^64.  Every number read from the sources modelled here is  *)
(* far below 2^31, so wrapping subtraction is integer subtraction on the   *)
(* representatives and a negative representative is a wrapped value.       *)
(***************************************************************************)
EXTENDS Integers, Sequences, FiniteSets, TLC

(***************************************************************************)
(* Bounds of the model.                                                    *)
(***************************************************************************)
\* Longest source, in lines, the construction specification starts from.
MaxLines == 6
\* Number of stats() calls explored on one instance.
MaxPolls == 3

(***************************************************************************)
(* Characters and strings.                                                 *)
(***************************************************************************)
NL == "\n"
CR == "\r"
\* char::is_whitespace, restricted to the characters that occur here.
WHITESPACE == {" ", "\t", "\n", "\r"}
DIGITS == <<"0", "1", "2", "3", "4", "5", "6", "7", "8", "9">>

\* s[from..to] of Rust, zero-based, to exclusive.
Slice(s, from, to) == SubSeq(s, from + 1, to)

\* const INDEX_KEYS, as strings of characters.
MemTotal == <<"M", "e", "m", "T", "o", "t", "a", "l">>
MemFree == <<"M", "e", "m", "F", "r", "e", "e">>
Buffers == <<"B", "u", "f", "f", "e", "r", "s">>
Cached == <<"C", "a", "c", "h", "e", "d">>
SReclaimable == <<"S", "R", "e", "c", "l", "a", "i", "m", "a", "b", "l", "e">>
INDEX_KEYS == <<MemTotal, MemFree, Buffers, Cached, SReclaimable>>
RequiredKeys == {INDEX_KEYS[i] : i \in 1..Len(INDEX_KEYS)}

(***************************************************************************)
(* str::lines: the pieces between "\n", a final empty piece dropped, and   *)
(* one trailing "\r" stripped from each piece.                             *)
(***************************************************************************)
RECURSIVE Ascending(_)
Ascending(S) ==
    IF S = {} THEN <<>>
    ELSE LET lo == CHOOSE x \in S : \A y \in S : x <= y
         IN  <<lo>> \o Ascending(S \ {lo})

StripCR(l) == IF l # <<>> /\ l[Len(l)] = CR THEN SubSeq(l, 1, Len(l) - 1) ELSE l

Lines(s) ==
    LET n == Len(s)
        \* where each piece ends: at a "\n", or at the end of a text that does
        \* not end with one
        ends == Ascending({i \in 1..n : s[i] = NL}
                          \cup (IF n > 0 /\ s[n] # NL THEN {n + 1} ELSE {}))
    IN  [k \in 1..Len(ends) |->
            StripCR(SubSeq(s, (IF k = 1 THEN 1 ELSE ends[k - 1] + 1), ends[k] - 1))]

(***************************************************************************)
(* line.split(':').nth(0): the text before the first colon, or the whole   *)
(* line when it has no colon.  split always yields a first piece, so       *)
(* nth(0) is never None.                                                   *)
(***************************************************************************)
FirstPiece(line) ==
    LET colons == {i \in 1..Len(line) : line[i] = ":"}
    IN  IF colons = {} THEN line
        ELSE SubSeq(line, 1, (CHOOSE i \in colons : \A j \in colons : i <= j) - 1)

\* Some(piece) / None, as a record.
SplitNth0(line) == [some |-> TRUE, val |-> FirstPiece(line)]

(***************************************************************************)
(* str::parse::<usize>: an optional "+", then one or more decimal digits.  *)
(* (A number above usize::MAX is an error too; the sources modelled here   *)
(* hold no number that long.)                                              *)
(***************************************************************************)
IsDigit(c) == \E i \in 1..10 : DIGITS[i] = c
DigitVal(c) == (CHOOSE i \in 1..10 : DIGITS[i] = c) - 1

RECURSIVE DigitsValue(_, _)
DigitsValue(ds, acc) ==
    IF ds = <<>> THEN acc ELSE DigitsValue(Tail(ds), 10 * acc + DigitVal(Head(ds)))

ParseUsize(s) ==
    LET ds == IF s # <<>> /\ Head(s) = "+" THEN Tail(s) ELSE s
    IN  IF ds = <<>> \/ \E i \in 1..Len(ds) : ~IsDigit(ds[i])
        THEN [ok |-> FALSE, val |-> 0]
        ELSE [ok |-> TRUE, val |-> DigitsValue(ds, 0)]

(***************************************************************************)
(* Results: Ok, the variants of enum MemErr, or a panic that unwinds out   *)
(* of the call.  key is the String of MissingValue, msg the &'static str   *)
(* of UnexpectedFormat.                                                    *)
(***************************************************************************)
Result(kind, key, msg) == [kind |-> kind, key |-> key, msg |-> msg]
OkRes == Result("Ok", <<>>, "")
NoRes == Result("none", <<>>, "")
UnexpectedFormat(msg) == Result("UnexpectedFormat", <<>>, msg)
MissingValue(key) == Result("MissingValue", key, "")
FileHandlingError == Result("FileHandlingError", <<>>, "")
ParseMemoryValue == Result("ParseMemoryValue", <<>>, "")
Panic(msg) == Result("panic", <<>>, msg)
\* The panic of a usize subtraction that underflows under overflow checks; the
\* panic names the place of the subtraction.
SubOverflowAt(place) == Result("panic", place, "attempt to subtract with overflow")

IsErr(r) ==
    r.kind \in {"UnexpectedFormat", "MissingValue", "FileHandlingError", "ParseMemoryValue"}

(***************************************************************************)
(* usize arithmetic on signed representatives.                             *)
(***************************************************************************)
\* a < b as unsigned numbers.
ULess(a, b) == IF (a >= 0) = (b >= 0) THEN a < b ELSE b < 0

\* a - b: with overflow checks (debug build) an underflow panics, without
\* them (release build) it wraps.
USub(a, b) == [overflow |-> ULess(a, b), val |-> a - b]

(***************************************************************************)
(* MemInfo::parse_kb_value_from_line.  oc: the build's overflow checks.    *)
(***************************************************************************)
\* s.rfind(char::is_whitespace): zero-based index of the last whitespace,
\* -1 for None.
\* s.find(char::is_whitespace) in its place: the first whitespace.
FindWhitespace(s) ==
    LET hits == {i \in 1..Len(s) : s[i] \in WHITESPACE}
    IN  IF hits = {} THEN -1 ELSE (CHOOSE i \in hits : \A j \in hits : i <= j) - 1

RFindWhitespace(s) ==
    LET hits == {i \in 1..Len(s) : s[i] \in WHITESPACE}
    IN  IF hits = {} THEN -1 ELSE (CHOOSE i \in hits : \A j \in hits : j <= i) - 1

SuffixLen == 3

parse_kb_value_from_line(s, oc) ==
    LET sub == USub(Len(s), SuffixLen)
        end == sub.val
    IN  IF sub.overflow /\ oc THEN [res |-> SubOverflowAt("mem.rs:102"), val |-> 0]
        \* s.get(..end) is None when end is past the end of s (a wrapped end is)
        ELSE IF ULess(Len(s), end) THEN [res |-> UnexpectedFormat("line is too short"), val |-> 0]
        ELSE LET at == RFindWhitespace(Slice(s, 0, end))
             IN  IF at < 0
                 THEN [res |-> UnexpectedFormat("line doesn't contain any whitespace"), val |-> 0]
                 ELSE LET p == ParseUsize(Slice(s, at + 1, end))
                      IN  IF p.ok THEN [res |-> OkRes, val |-> p.val]
                          ELSE [res |-> ParseMemoryValue, val |-> 0]

(***************************************************************************)
(* BTreeMap<usize, String>: a function from its keys; iteration is in      *)
(* ascending key order (Ascending of its domain).                          *)
(***************************************************************************)
EmptyMap == <<>>
Insert(m, k, v) == [x \in (DOMAIN m) \cup {k} |-> IF x = k THEN v ELSE m[x]]

(***************************************************************************)
(* build_lookup_table, after the read and the seek: from the buffer's      *)
(* text to Ok(lookup) or Err.                                              *)
(***************************************************************************)
\* keys.contains(key)
Contains(keys, key) == \E i \in 1..Len(keys) : keys[i] = key

\* (a variant that counts positions from one)
PositionFromOne(keys, key) == CHOOSE i \in 1..Len(keys) : keys[i] = key /\ \A j \in 1..(i - 1) : keys[j] # key

\* keys.iter().position(|s| *s == *key).unwrap(): zero-based, first match
Position(keys, key) == (CHOOSE i \in 1..Len(keys) : keys[i] = key /\ \A j \in 1..(i - 1) : keys[j] # key) - 1

\* for line in buf.lines() { keys.push(line.split(':').nth(0).ok_or(..)?) }
RECURSIVE collect_keys(_, _)
collect_keys(lines, keys) ==
    IF lines = <<>> THEN [res |-> OkRes, keys |-> keys]
    ELSE LET key == SplitNth0(Head(lines))
         IN  IF ~key.some THEN [res |-> UnexpectedFormat("missing colon (:)"), keys |-> keys]
             ELSE collect_keys(Tail(lines), Append(keys, key.val))

\* (a variant that passes over an absent key instead of returning Err)
RECURSIVE index_keys_skipping(_, _, _)
index_keys_skipping(keys, i, lookup) ==
    IF i > Len(INDEX_KEYS) THEN [res |-> OkRes, lookup |-> lookup]
    ELSE IF ~Contains(keys, INDEX_KEYS[i])
         THEN index_keys_skipping(keys, i + 1, lookup)
         ELSE index_keys_skipping(keys, i + 1,
                                  Insert(lookup, Position(keys, INDEX_KEYS[i]), INDEX_KEYS[i]))

\* for key in &INDEX_KEYS { ... lookup.insert(index, key) }
RECURSIVE index_keys(_, _, _)
index_keys(keys, i, lookup) ==
    IF i > Len(INDEX_KEYS) THEN [res |-> OkRes, lookup |-> lookup]
    ELSE IF ~Contains(keys, INDEX_KEYS[i])
         THEN [res |-> MissingValue(INDEX_KEYS[i]), lookup |-> EmptyMap]
         ELSE index_keys(keys, i + 1, Insert(lookup, Position(keys, INDEX_KEYS[i]), INDEX_KEYS[i]))

build_lookup_table(text) ==
    LET ks == collect_keys(Lines(text), <<>>)
    IN  IF ks.res.kind # "Ok" THEN [res |-> ks.res, lookup |-> EmptyMap]
        ELSE index_keys(ks.keys, 1, EmptyMap)

(***************************************************************************)
(* MemInfo::stats, the loop over self.lookup.  lines.nth(n) skips n lines  *)
(* of the cursor and yields the next one, or None past the end; cursor is  *)
(* the zero-based number of the line the iterator yields next.  visited    *)
(* collects the numbers of the lines handed to parse_kb_value_from_line.   *)
(***************************************************************************)
\* let n = if advance == 0 { 0 } else { advance - 1 };
SkipCount(advance) == IF advance = 0 THEN 0 ELSE advance - 1

RECURSIVE update_cache(_, _, _, _, _, _, _, _)
update_cache(order, lookup, lines, cursor, last_pos, cache, visited, oc) ==
    IF order = <<>> THEN [res |-> OkRes, cache |-> cache, visited |-> visited]
    ELSE LET n_line == Head(order)
             value_name == lookup[n_line]
             advance == n_line - last_pos
             n == SkipCount(advance)
             at == cursor + n
         IN  IF at >= Len(lines)
             THEN [res |-> Panic("called Option::unwrap() on a None value"),
                   cache |-> cache, visited |-> visited]
             ELSE LET value == parse_kb_value_from_line(lines[at + 1], oc)
                  IN  IF value.res.kind # "Ok"
                      THEN [res |-> value.res, cache |-> cache,
                            visited |-> Append(visited, at)]
                      ELSE update_cache(Tail(order), lookup, lines, at + 1, n_line,
                                        [cache EXCEPT ![value_name] = value.val],
                                        Append(visited, at), oc)

(***************************************************************************)
(* MemInfo::stats, "update stats from cache".                              *)
(***************************************************************************)
MemStats(total, free, used) == [total |-> total, free |-> free, used |-> used]

\* self.cache["MemTotal"] - self.cache["MemFree"] - self.cache["Buffers"]
\*     - self.cache["Cached"] - self.cache["SReclaimable"], left to right
used_from_cache(cache) ==
    LET d1 == USub(cache[MemTotal], cache[MemFree])
        d2 == USub(d1.val, cache[Buffers])
        d3 == USub(d2.val, cache[Cached])
        d4 == USub(d3.val, cache[SReclaimable])
    IN  [overflow |-> d1.overflow \/ d2.overflow \/ d3.overflow \/ d4.overflow,
         val |-> d4.val]

(***************************************************************************)
(* The source: the text the kernel serves as /proc/meminfo.                *)
(***************************************************************************)
RECURSIVE ToDigits(_)
ToDigits(n) == IF n < 10 THEN <<DIGITS[n + 1]>> ELSE ToDigits(n \div 10) \o <<DIGITS[(n % 10) + 1]>>

\* "Key:  <field> kB"
Line(key, field) == key \o <<":", " ", " ">> \o field \o <<" ", "k", "B">>
KV(key, n) == Line(key, ToDigits(n))

RECURSIVE Content(_)
Content(lines) == IF lines = <<>> THEN <<>> ELSE Head(lines) \o <<NL>> \o Content(Tail(lines))

Dirty == <<"D", "i", "r", "t", "y">>

\* The five required lines with the given values, in INDEX_KEYS order.
Required(t, f, b, c, s) ==
    <<KV(MemTotal, t), KV(MemFree, f), KV(Buffers, b), KV(Cached, c), KV(SReclaimable, s)>>

Base == Required(9, 1, 2, 3, 1)

\* Lines the construction specification builds its sources from: the required
\* lines, a line of another key, and a required key's name without a colon.
LinePool == {Base[i] : i \in 1..5} \cup {KV(Dirty, 7), MemFree}

\* The sequences of up to n different members of S.
RECURSIVE Arrangements(_, _)
Arrangements(S, n) ==
    IF n = 0 THEN {<<>>}
    ELSE LET shorter == Arrangements(S, n - 1)
         IN  shorter \cup UNION {{Append(a, x) : x \in S \ {a[i] : i \in 1..Len(a)}} :
                                 a \in {q \in shorter : Len(q) = n - 1}}

\* Every arrangement of up to MaxLines different pool lines.
BuildSources == {Content(a) : a \in Arrangements(LinePool, MaxLines)}

\* The same lines with the second and the third exchanged.
Swap23(a) == <<a[1], a[3], a[2]>> \o SubSeq(a, 4, Len(a))

\* Sources of the polling specification.
SrcBase == Content(Base)
SrcValues == Content(Required(8, 2, 1, 1, 1))
SrcUnder == Content(Required(1, 2, 0, 0, 0))
SrcReordered == Content(Swap23(Base))
SrcShort == Content(SubSeq(Base, 1, 3))
SrcBadValue == Content(<<KV(MemTotal, 8), Line(MemFree, <<"x">>)>> \o SubSeq(Base, 3, 5))
SrcLead == Content(<<KV(Dirty, 7)>> \o Base)
\* MemFree's line cut down to its unit, two characters.
SrcTiny == Content(<<Base[1], <<"k", "B">>>> \o SubSeq(Base, 3, 5))
\* A second MemTotal entry, with another value, after MemFree's.
SrcDup == Content(<<Base[1], Base[2], KV(MemTotal, 4)>> \o SubSeq(Base, 3, 5))
(***************************************************************************)
(* Entry lines for parse_kb_value_from_line on its own: key, colon, up to   *)
(* MaxPad blanks or tabs, up to MaxZeros leading zeros and the digits of a  *)
(* value, one blank or tab, and a unit of two characters.                   *)
(***************************************************************************)
MaxPad == 2
MaxZeros == 1

RECURSIVE Fill(_, _)
Fill(chars, n) ==
    IF n = 0 THEN {<<>>} ELSE {<<c>> \o f : c \in chars, f \in Fill(chars, n - 1)}

ParseValues == {0, 7, 10, 42, 16384}
Units == {<<"k", "B">>, <<"M", "B">>}

ParseArgs ==
    {[line  |-> key \o <<":">> \o pad \o zeros \o ToDigits(n) \o <<ws>> \o unit,
      pad   |-> Len(pad),
      value |-> n] :
        key \in RequiredKeys,
        pad \in UNION {Fill({" ", "\t"}, k) : k \in 0..MaxPad},
        zeros \in UNION {Fill({"0"}, k) : k \in 0..MaxZeros},
        n \in ParseValues,
        ws \in {" ", "\t"},
        unit \in Units}

PollSources ==
    {SrcBase, SrcValues, SrcUnder, SrcReordered, SrcShort, SrcBadValue, SrcLead, SrcTiny,
     SrcDup}

(***************************************************************************)
(* State.                                                                  *)
(***************************************************************************)
VARIABLES
    source,          \* the text of /proc/meminfo now
    overflow_checks, \* the build: TRUE debug (overflow panics), FALSE release (wraps)
    phase,           \* "init": before new(); "ready": a MemInfo exists;
                     \* "failed": new() returned Err; "panicked": a call panicked
    pos,             \* MemInfo.file: the offset of the open file
    buf,             \* MemInfo.buf
    stats,           \* MemInfo.stats
    lookup,          \* MemInfo.lookup
    cache,           \* MemInfo.cache
    res,             \* what the last call returned
    op,              \* the last call: "new" or "stats"
    polls,           \* number of stats() calls made
    started_with,    \* self.buf as the last stats() call found it
    visited,         \* zero-based numbers of the lines that call handed to
                     \* parse_kb_value_from_line, in order
    changed,         \* the source was written since the last stats() call
    indexed_lines,   \* the number of lines of the text new() read and indexed
    indexed_keys,    \* the text before the first colon of each of those lines
    arg,             \* a line given to parse_kb_value_from_line on its own
    ret              \* what parse_kb_value_from_line returned for arg

vars == <<source, overflow_checks, phase, pos, buf, stats, lookup, cache, res, op,
          polls, started_with, visited, changed, indexed_lines, indexed_keys, arg, ret>>

\* What a read from offset p of the file returns: the text from p to the end.
ReadFrom(text, p) == IF p >= Len(text) THEN <<>> ELSE SubSeq(text, p + 1, Len(text))

InitFields ==
    /\ overflow_checks \in BOOLEAN
    /\ phase = "init"
    /\ pos = 0
    /\ buf = <<>>
    /\ stats = MemStats(0, 0, 0)
    /\ lookup = EmptyMap
    /\ cache = EmptyMap
    /\ res = NoRes
    /\ op = "none"
    /\ polls = 0
    /\ started_with = <<>>
    /\ visited = <<>>
    /\ changed = FALSE
    /\ indexed_lines = 0
    /\ indexed_keys = <<>>

\* No line is parsed on its own.
NoArg == [line |-> <<>>, pad |-> 0, value |-> 0]
NoRet == [res |-> NoRes, val |-> 0]

Init == source \in PollSources /\ InitFields /\ arg = NoArg /\ ret = NoRet

InitBuild == source \in BuildSources /\ InitFields /\ arg = NoArg /\ ret = NoRet

InitParse == source = SrcBase /\ InitFields /\ arg \in ParseArgs /\ ret = NoRet

(***************************************************************************)
(* MemInfo::new.                                                           *)
(***************************************************************************)
\* (a variant that stores each key's line number instead of 0)
seed_cache_with_index(map) ==
    [k \in {map[i] : i \in DOMAIN map} |-> CHOOSE i \in DOMAIN map : map[i] = k]

\* cache.insert(value_name.clone(), 0) for every value of lookup
seed_cache(map) == [k \in {map[i] : i \in DOMAIN map} |-> 0]

\* File::open, read_to_string or seek fails: Err(FileHandlingError), no MemInfo.
NewIoError ==
    /\ phase = "init"
    /\ phase' = "failed"
    /\ res' = FileHandlingError
    /\ op' = "new"
    /\ UNCHANGED <<source, overflow_checks, pos, buf, stats, lookup, cache, polls,
                   started_with, visited, changed, indexed_lines,
                   indexed_keys, arg, ret>>

New ==
    /\ phase = "init"
    /\ LET built == build_lookup_table(buf \o ReadFrom(source, 0))
       IN  /\ res' = built.res
           /\ IF built.res.kind = "Ok"
              THEN /\ phase' = "ready"
                   /\ lookup' = built.lookup
                   /\ cache' = seed_cache(built.lookup)
              ELSE /\ phase' = "failed"
                   /\ UNCHANGED <<lookup, cache>>
    \* file.seek(SeekFrom::Start(0)); buf.clear(); stats: MemStats::default()
    /\ pos' = 0
    /\ buf' = <<>>
    /\ stats' = MemStats(0, 0, 0)
    /\ op' = "new"
    /\ indexed_lines' = Len(Lines(ReadFrom(source, 0)))
    /\ indexed_keys' = [i \in 1..Len(Lines(ReadFrom(source, 0))) |->
                            FirstPiece(Lines(ReadFrom(source, 0))[i])]
    /\ UNCHANGED <<source, overflow_checks, polls, started_with, visited, changed, arg,
                   ret>>

(***************************************************************************)
(* MemInfo::stats.                                                         *)
(***************************************************************************)
\* read_to_string fails before it read anything: Err, nothing else happened.
StatsReadError ==
    /\ phase = "ready"
    /\ polls < MaxPolls
    /\ res' = FileHandlingError
    /\ op' = "stats"
    /\ polls' = polls + 1
    /\ started_with' = buf
    /\ visited' = <<>>
    /\ changed' = FALSE
    /\ UNCHANGED <<source, overflow_checks, phase, pos, buf, stats, lookup, cache, indexed_lines,
                   indexed_keys, arg, ret>>

\* The text was read into buf, then read_to_string (its read that looks for the
\* end of the file) or the seek failed: Err, with the offset left at the end.
StatsSeekError ==
    /\ phase = "ready"
    /\ polls < MaxPolls
    /\ buf' = buf \o ReadFrom(source, pos)
    /\ pos' = IF pos > Len(source) THEN pos ELSE Len(source)
    /\ res' = FileHandlingError
    /\ op' = "stats"
    /\ polls' = polls + 1
    /\ started_with' = buf
    /\ visited' = <<>>
    /\ changed' = FALSE
    /\ UNCHANGED <<source, overflow_checks, phase, stats, lookup, cache, indexed_lines,
                   indexed_keys, arg, ret>>

\* (a variant that copies total and free into self.stats before the loop's
\* error is returned)
stats_body_eager(text, lookup0, cache0, stats0, oc) ==
    LET walk == update_cache(Ascending(DOMAIN lookup0), lookup0, Lines(text), 0, 0, cache0,
                             <<>>, oc)
        used == used_from_cache(walk.cache)
        copied == MemStats(walk.cache[MemTotal], walk.cache[MemFree], stats0.used)
    IN  IF walk.res.kind # "Ok"
        THEN [res |-> walk.res, cache |-> walk.cache, visited |-> walk.visited,
              stats |-> copied, buf |-> text]
        ELSE IF used.overflow /\ oc
        THEN [res |-> SubOverflowAt("mem.rs:144"), cache |-> walk.cache,
              visited |-> walk.visited, stats |-> copied, buf |-> text]
        ELSE [res |-> OkRes, cache |-> walk.cache, visited |-> walk.visited,
              stats |-> MemStats(copied.total, copied.free, used.val), buf |-> <<>>]

\* What stats() does once the read and the seek succeeded, from the buffer's
\* text: the result and the fields as the call leaves them.
stats_body(text, lookup0, cache0, stats0, oc) ==
    LET lines == Lines(text)
        walk == update_cache(Ascending(DOMAIN lookup0), lookup0, lines, 0, 0, cache0,
                             <<>>, oc)
        used == used_from_cache(walk.cache)
    IN  IF walk.res.kind # "Ok"
        THEN [res |-> walk.res, cache |-> walk.cache, visited |-> walk.visited,
              stats |-> stats0, buf |-> text]
        ELSE IF used.overflow /\ oc
        THEN [res |-> SubOverflowAt("mem.rs:144"), cache |-> walk.cache,
              visited |-> walk.visited,
              stats |-> MemStats(walk.cache[MemTotal], walk.cache[MemFree], stats0.used),
              buf |-> text]
        ELSE [res |-> OkRes, cache |-> walk.cache, visited |-> walk.visited,
              stats |-> MemStats(walk.cache[MemTotal], walk.cache[MemFree], used.val),
              buf |-> <<>>]

Stats ==
    /\ phase = "ready"
    /\ polls < MaxPolls
    /\ LET text == buf \o ReadFrom(source, pos)
           out == stats_body(text, lookup, cache, stats, overflow_checks)
       IN  /\ res' = out.res
           /\ cache' = out.cache
           /\ stats' = out.stats
           /\ buf' = out.buf
           /\ visited' = out.visited
           /\ phase' = IF out.res.kind = "panic" THEN "panicked" ELSE "ready"
    /\ pos' = 0
    /\ op' = "stats"
    /\ polls' = polls + 1
    /\ started_with' = buf
    /\ changed' = FALSE
    /\ UNCHANGED <<source, overflow_checks, lookup, indexed_lines,
                   indexed_keys, arg, ret>>

(***************************************************************************)
(* The kernel: the text of /proc/meminfo changes under a live MemInfo.     *)
(* (Before new() every source is an initial state already.)                *)
(***************************************************************************)
WriteSource ==
    /\ phase = "ready"
    /\ polls < MaxPolls
    /\ \E s \in PollSources \ {source} : source' = s
    /\ changed' = TRUE
    /\ UNCHANGED <<overflow_checks, phase, pos, buf, stats, lookup, cache, res, op,
                   polls, started_with, visited, indexed_lines,
                   indexed_keys, arg, ret>>

\* parse_kb_value_from_line called on arg.
ParseLine ==
    /\ ret = NoRet
    /\ ret' = parse_kb_value_from_line(arg.line, overflow_checks)
    /\ UNCHANGED <<source, overflow_checks, phase, pos, buf, stats, lookup, cache, res,
                   op, polls, started_with, visited, changed, indexed_lines,
                   indexed_keys, arg>>

Next == NewIoError \/ New \/ StatsReadError \/ StatsSeekError \/ Stats \/ WriteSource

Spec == Init /\ [][Next]_vars

\* Construction and polls of an unchanging source, from every source built of
\* LinePool.
NextBuild == NewIoError \/ New \/ Stats

SpecBuild == InitBuild /\ [][NextBuild]_vars

\* parse_kb_value_from_line on every line of ParseArgs.
NextParse == ParseLine

SpecParse == InitParse /\ [][NextParse]_vars

(***************************************************************************)
(* What the properties speak of, stated on the text itself and not through *)
(* the program's own parsing.                                              *)
(***************************************************************************)
HasColon(line) == \E i \in 1..Len(line) : line[i] = ":"

\* line is the entry of key: the key's name, then a colon.
Bears(line, key) ==
    /\ Len(line) > Len(key)
    /\ SubSeq(line, 1, Len(key)) = key
    /\ line[Len(key) + 1] = ":"

\* line is the key's name itself, with no colon behind it.
BareName(line, key) == line = key

\* "Key:<spaces><digits> kB"
EntryLine(line) ==
    \E c \in 2..(Len(line) - 4) :
        /\ line[c] = ":"
        /\ \A i \in 1..(c - 1) : line[i] # ":" /\ line[i] \notin WHITESPACE
        /\ SubSeq(line, Len(line) - 2, Len(line)) = <<" ", "k", "B">>
        /\ \E d \in (c + 1)..(Len(line) - 3) :
              /\ \A i \in (c + 1)..(d - 1) : line[i] = " "
              /\ \A i \in d..(Len(line) - 3) : IsDigit(line[i])

\* Every line is an entry and every required key has exactly one.
WellFormed(text) ==
    LET ls == Lines(text)
    IN  /\ \A i \in 1..Len(ls) : EntryLine(ls[i])
        /\ \A k \in RequiredKeys : Cardinality({i \in 1..Len(ls) : Bears(ls[i], k)}) = 1

\* No line is the key's entry, nor its bare name.
Absent(key, text) ==
    LET ls == Lines(text)
    IN  \A i \in 1..Len(ls) : ~Bears(ls[i], key) /\ ~BareName(ls[i], key)

Values(map) == {map[i] : i \in DOMAIN map}

Constructed == phase \in {"ready", "panicked"}

\* The last call was a stats() that got past its read and its seek.
Polled == op = "stats" /\ res # FileHandlingError

\* The largest line number of a LineIndex.
MaxIndex(map) == CHOOSE i \in DOMAIN map : \A j \in DOMAIN map : j <= i

\* An indexed line number of the source now holds something else than the
\* entry of the key it was indexed for.
Stale ==
    \E i \in DOMAIN lookup :
        i + 1 <= Len(Lines(source)) /\ ~Bears(Lines(source)[i + 1], lookup[i])

\* The usize with representative x is the integer n (n below 2^63).
Denotes(x, n) == x >= 0 /\ x = n

\* The source has as many lines as new() read, with the same text before the
\* first colon on each.
SameLayout ==
    /\ Len(Lines(source)) = Len(indexed_keys)
    /\ \A i \in 1..Len(indexed_keys) : FirstPiece(Lines(source)[i]) = indexed_keys[i]

\* The integers the entries of the sources are written with.
WrittenValues == 0..9

\* The zero-based number of the last line the last stats() call handed to value
\* extraction.
LastVisited == visited[Len(visited)]

(***************************************************************************)
(* C1.  Delta-advance: in every stats() call the cursor lands on the       *)
(* indexed line numbers, in ascending order: the i-th line handed to value *)
(* extraction is the line at the i-th smallest index of the LineIndex,     *)
(* whatever the smallest index is.                                         *)
(***************************************************************************)
C1_CursorLandsOnIndexedLines ==
    Polled =>
        \A i \in 1..Len(visited) : visited[i] = Ascending(DOMAIN lookup)[i]

(***************************************************************************)
(* C2.  Index correctness: from a well-formed source holding all five      *)
(* required keys, one per line, in any order, construction succeeds        *)
(* (unless the file could not be read), the LineIndex has exactly the      *)
(* required keys and maps each key's zero-based line number to that key.   *)
(***************************************************************************)
C2_IndexCorrect ==
    WellFormed(source) =>
        /\ phase = "failed" => res = FileHandlingError
        /\ Constructed =>
              /\ Values(lookup) = RequiredKeys
              /\ Cardinality(DOMAIN lookup) = Len(INDEX_KEYS)
              /\ \A i \in DOMAIN lookup :
                    /\ i + 1 \in 1..Len(Lines(source))
                    /\ Bears(Lines(source)[i + 1], lookup[i])

\* A well-formed source whose first line is not a required key's and whose
\* required keys are not in INDEX_KEYS order was indexed.
C2_Witness ==
    /\ op = "new"
    /\ phase = "ready"
    /\ WellFormed(source)
    /\ 0 \notin DOMAIN lookup
    /\ lookup[1] = SReclaimable
    /\ lookup[5] = MemTotal

(***************************************************************************)
(* C3.  Missing key: when a required key is absent from the source, new()  *)
(* creates no MemInfo, so no stats() call ever runs, and unless the file   *)
(* could not be read it returns MissingValue naming an absent key (the     *)
(* first absent one in INDEX_KEYS order).                                  *)
(***************************************************************************)
C3_MissingKeyFails ==
    (\E k \in RequiredKeys : Absent(k, source)) =>
        /\ phase \in {"init", "failed"}
        /\ polls = 0
        /\ op = "new" =>
              \/ res = FileHandlingError
              \/ /\ res.kind = "MissingValue"
                 /\ \E i \in 1..Len(INDEX_KEYS) :
                       /\ res.key = INDEX_KEYS[i]
                       /\ Absent(INDEX_KEYS[i], source)
                       /\ \A j \in 1..(i - 1) : ~Absent(INDEX_KEYS[j], source)

\* new() returned MissingValue("Cached") for a source without Cached whose
\* other lines are all there.
C3_Witness ==
    /\ op = "new"
    /\ phase = "failed"
    /\ res = MissingValue(Cached)
    /\ Absent(Cached, source)
    /\ Len(Lines(source)) = 5

(***************************************************************************)
(* C10.  Malformed line at construction: when a line of the source has no  *)
(* colon, new() fails with UnexpectedFormat("missing colon (:)") (unless   *)
(* the file could not be read) and no MemInfo is created.                  *)
(***************************************************************************)
C10_NoColonIsFormatError ==
    (/\ op = "new"
     /\ res # FileHandlingError
     /\ \E i \in 1..Len(Lines(source)) : ~HasColon(Lines(source)[i])) =>
        /\ res = UnexpectedFormat("missing colon (:)")
        /\ phase = "failed"

(***************************************************************************)
(* C4.  Source shrank: when the source a stats() call reads has fewer      *)
(* lines than the largest indexed line number requires, the call returns   *)
(* an error value; it does not panic.                                      *)
(***************************************************************************)
C4_ShrunkSourceIsError ==
    (/\ Polled
     /\ ~changed
     /\ started_with = <<>>
     /\ Len(Lines(source)) < indexed_lines
     /\ Len(Lines(source)) <= MaxIndex(lookup)) =>
        IsErr(res)

(***************************************************************************)
(* C5.  Stale index: when the lines of the source are in another order     *)
(* than at construction (as many lines, every line well formed), so that   *)
(* an indexed line number now holds another key's entry, stats() returns   *)
(* an error; it does not return Ok.                                        *)
(***************************************************************************)
C5_StaleIndexIsError ==
    (/\ Polled
     /\ ~changed
     /\ started_with = <<>>
     /\ WellFormed(source)
     /\ Len(Lines(source)) = indexed_lines
     /\ Stale) =>
        IsErr(res)

(***************************************************************************)
(* C6.  A stats() call that returns an error leaves total, free and used   *)
(* of self.stats as they were before the call.                             *)
(***************************************************************************)
C6_ErrorKeepsStats ==
    [][(polls' = polls + 1 /\ IsErr(res')) => stats' = stats]_vars

\* A stats() call failed on MemFree's line after it had stored a new MemTotal
\* in the cache, on an instance whose stats an earlier call had set.
C6_Witness ==
    /\ op = "stats"
    /\ res = ParseMemoryValue
    /\ stats.total = 9
    /\ cache[MemTotal] = 8

(***************************************************************************)
(* C7.  Buffer reuse: every stats() call finds the read buffer empty when  *)
(* it starts to read, whatever calls came before it.                       *)
(***************************************************************************)
C7_BufferEmptyAtPollStart == op = "stats" => started_with = <<>>

(***************************************************************************)
(* C8.  Derived-metric identity: after a stats() call that returned Ok,    *)
(* total is cache[MemTotal], free is cache[MemFree], and used is the       *)
(* number cache[MemTotal] - cache[MemFree] - cache[Buffers] -              *)
(* cache[Cached] - cache[SReclaimable].                                    *)
(***************************************************************************)
C8_DerivedIdentity ==
    (op = "stats" /\ res = OkRes) =>
        /\ stats.total = cache[MemTotal]
        /\ stats.free = cache[MemFree]
        /\ Denotes(stats.used, cache[MemTotal] - cache[MemFree] - cache[Buffers]
                               - cache[Cached] - cache[SReclaimable])

(***************************************************************************)
(* C9.  Idempotent re-poll: two consecutive stats() calls with no change   *)
(* of the source between them, both returning Ok, return the same total,   *)
(* free and used.                                                          *)
(***************************************************************************)
C9_RepollSameStats ==
    [][(/\ op = "stats"
        /\ res = OkRes
        /\ ~changed
        /\ polls' = polls + 1
        /\ res' = OkRes) => stats' = stats]_vars

(***************************************************************************)
(* C11.  Line shorter than the unit suffix: when the line a stats() call   *)
(* hands to value extraction has fewer than 3 characters, the call returns *)
(* UnexpectedFormat("line is too short") to its caller; it does not panic. *)
(***************************************************************************)
C11_ShortLineIsError ==
    (/\ Polled
     /\ ~changed
     /\ started_with = <<>>
     /\ visited # <<>>
     /\ LastVisited < Len(Lines(source))
     /\ Len(Lines(source)[LastVisited + 1]) < SuffixLen) =>
        res = UnexpectedFormat("line is too short")

C13_CacheKeys ==
    Constructed =>
        /\ DOMAIN cache = RequiredKeys
        /\ op = "new" => \A k \in RequiredKeys : cache[k] = 0

\* A poll that returned Ok was followed by one that failed on MemFree's line
\* after it had stored another MemTotal.
C13_Witness ==
    /\ phase = "ready"
    /\ polls = 2
    /\ IsErr(res)
    /\ stats.total = 9
    /\ cache[MemTotal] = 8
    /\ cache[MemFree] = 1

(***************************************************************************)
(* C14.  LineIndex invariant: whenever new() succeeds, for any source      *)
(* (also one where a required key is on more than one line), every key of  *)
(* the lookup table is in RequiredKeys and every member of RequiredKeys    *)
(* has exactly one entry (5 entries at pairwise distinct line numbers),    *)
(* and no later call, stats() included, changes the table.                 *)
(***************************************************************************)
C14_IndexShapeAndFrozen ==
    [][Constructed' =>
          /\ Values(lookup') = RequiredKeys
          /\ Cardinality(DOMAIN lookup') = Len(INDEX_KEYS)
          /\ \A k \in RequiredKeys :
                Cardinality({i \in DOMAIN lookup' : lookup'[i] = k}) = 1
          /\ Constructed => lookup' = lookup]_vars

\* new() indexed a source with MemTotal on two lines, and a poll of it
\* returned Ok.
C14_Witness ==
    /\ op = "stats"
    /\ res = OkRes
    /\ ~changed
    /\ \E i, j \in 1..Len(indexed_keys) :
          i < j /\ indexed_keys[i] = MemTotal /\ indexed_keys[j] = MemTotal
    /\ Cardinality(DOMAIN lookup) = Len(INDEX_KEYS)

(***************************************************************************)
(* C15.  No data-dependent panic in the derived-metrics step: whatever     *)
(* values a stats() call parsed, also when MemFree + Buffers + Cached +    *)
(* SReclaimable exceeds MemTotal, the subtraction that computes used does  *)
(* not panic and does not wrap around.                                     *)
(***************************************************************************)
C15_UsedNeitherPanicsNorWraps ==
    op = "stats" =>
        /\ res # SubOverflowAt("mem.rs:144")
        /\ res = OkRes => stats.used >= 0

(***************************************************************************)
(* C16.  When the smallest indexed line number is 0 and the source has the *)
(* same lines in the same order as at construction (the same key on every  *)
(* line, whatever the values), then after a stats() call that returned Ok  *)
(* every cache value is the integer written on the line of the current     *)
(* source that is indexed for its key.                                     *)
(***************************************************************************)
C16_CacheTracksSource ==
    (/\ op = "stats"
     /\ res = OkRes
     /\ ~changed
     /\ 0 \in DOMAIN lookup
     /\ SameLayout) =>
        \A i \in DOMAIN lookup :
            \E n \in WrittenValues :
                /\ Lines(source)[i + 1] = KV(lookup[i], n)
                /\ cache[lookup[i]] = n

=============================================================================
